---- MODULE Spec2Model ----
(***************************************************************************)
(* ROI calculator back end: the calculateRoi request handler and the       *)
(* projection / metrics helpers of CalculatorController.                    *)
(*                                                                         *)
(* JavaScript Numbers are modelled as decimal floating-point values: a     *)
(* Number is a multiple of 1/SCALE that has at most Digits significant     *)
(* decimal digits, or NaN, or +/-Infinity.  The result of every sum,       *)
(* product and quotient is rounded to the nearest such value, ties to      *)
(* even, as IEEE-754 rounds the result of each operation to the nearest    *)
(* double.  The order comparisons LE, LT, GE follow IEEE-754: each is      *)
(* false when an operand is NaN.                                           *)
(***************************************************************************)
EXTENDS Integers, Sequences, FiniteSets, TLC

\* ------------------------------------------------------------------ bounds
\* Units per 1 of the Numbers: the smallest positive Number is 1/SCALE.
SCALE == 1000
\* Significant decimal digits a Number holds.
Digits == 5
\* Largest timeframe (months) a request of the handler specification asks for.
MaxTimeframe == 3
\* Longest series handed to calculateDynamicPaybackPeriod on its own.
MaxSeriesLen == 4
\* Longest series handed to the chart builders on their own.
MaxChartLen == 40
\* Largest |net_profit| handed to generatePerformanceMetrics on its own.
MaxNet == 3

\* ------------------------------------------------------ JavaScript Numbers
Fin(v) == [k |-> "fin", v |-> v]
NaN == [k |-> "nan", v |-> 0]
PosInf == [k |-> "inf", v |-> 1]
NegInf == [k |-> "inf", v |-> -1]
Num(n) == Fin(n * SCALE)

IsFin(a) == a.k = "fin"
IsNaN(a) == a.k = "nan"
IsInf(a) == a.k = "inf"
Sign(n) == IF n > 0 THEN 1 ELSE IF n < 0 THEN -1 ELSE 0
InfOf(s) == IF s > 0 THEN PosInf ELSE NegInf

\* a / b for b > 0, rounded to the nearest integer, ties to even.
RoundDiv(a, b) ==
  LET f == a \div b
      r == a - f * b
  IN IF 2 * r < b THEN f
     ELSE IF 2 * r > b THEN f + 1
     ELSE IF f % 2 = 0 THEN f ELSE f + 1

Abs(n) == IF n < 0 THEN -n ELSE n

\* The spacing of the Numbers around v units: the power of ten q >= 1 from
\* which v / q has at most Digits digits.
RECURSIVE Quantum(_, _)
Quantum(v, q) == IF Abs(v) \div q < 10 ^ Digits THEN q ELSE Quantum(v, 10 * q)

\* The Number nearest to v units.
Float(v) == LET q == Quantum(v, 1) IN Fin(RoundDiv(v, q) * q)

\* The decimal literal n/d, e.g. Dec(6, 10) for 0.6.
Dec(n, d) == Float(RoundDiv(n * SCALE, d))

Neg(a) == IF IsNaN(a) THEN NaN ELSE [k |-> a.k, v |-> -a.v]

Add(a, b) ==
  IF IsNaN(a) \/ IsNaN(b) THEN NaN
  ELSE IF IsInf(a) /\ IsInf(b) THEN (IF a.v = b.v THEN a ELSE NaN)
  ELSE IF IsInf(a) THEN a
  ELSE IF IsInf(b) THEN b
  ELSE Float(a.v + b.v)

Sub(a, b) == Add(a, Neg(b))

Mul(a, b) ==
  IF IsNaN(a) \/ IsNaN(b) THEN NaN
  ELSE IF IsInf(a) \/ IsInf(b)
       THEN (IF Sign(a.v) * Sign(b.v) = 0 THEN NaN ELSE InfOf(Sign(a.v) * Sign(b.v)))
  ELSE IF b.v % SCALE = 0 THEN Float(a.v * (b.v \div SCALE))
  ELSE IF a.v % SCALE = 0 THEN Float((a.v \div SCALE) * b.v)
  ELSE Float(RoundDiv(a.v * b.v, SCALE))

\* Zero divisors are +0: the divisors of this program are products and
\* integers that are never -0 for the inputs modelled.
Div(a, b) ==
  IF IsNaN(a) \/ IsNaN(b) THEN NaN
  ELSE IF IsInf(a) THEN (IF IsInf(b) THEN NaN
                         ELSE InfOf(a.v * (IF b.v < 0 THEN -1 ELSE 1)))
  ELSE IF IsInf(b) THEN Fin(0)
  ELSE IF b.v = 0 THEN (IF a.v = 0 THEN NaN ELSE InfOf(a.v))
  ELSE IF b.v > 0 THEN Float(RoundDiv(a.v * SCALE, b.v))
  ELSE Float(RoundDiv((-a.v) * SCALE, -b.v))

\* IEEE-754 comparisons (a <= b, a < b, a >= b on Numbers).
Key(a) == IF IsInf(a) THEN a.v * 2000000000 ELSE a.v
LE(a, b) == ~IsNaN(a) /\ ~IsNaN(b) /\ Key(a) <= Key(b)
LT(a, b) == ~IsNaN(a) /\ ~IsNaN(b) /\ Key(a) < Key(b)
GE(a, b) == LE(b, a)

\* Math.round: the nearest integer, halves towards +Infinity.
MathRound(a) ==
  IF IsFin(a) THEN Fin(((2 * a.v + SCALE) \div (2 * SCALE)) * SCALE) ELSE a

\* Math.ceil
MathCeil(a) ==
  IF IsFin(a) THEN Fin((-((-a.v) \div SCALE)) * SCALE) ELSE a

\* Math.min of two Numbers: NaN if either is NaN.
MathMin(a, b) ==
  IF IsNaN(a) \/ IsNaN(b) THEN NaN ELSE IF LE(a, b) THEN a ELSE b

\* ToBoolean of a Number: 0 and NaN are falsy.
TruthyNum(a) == ~IsNaN(a) /\ a.v # 0

\* a || b on Numbers.
OrElse(a, b) == IF TruthyNum(a) THEN a ELSE b

\* The integer a Number holds (lengths, indices).
IntOf(a) == a.v \div SCALE

\* ------------------------------------------------------- JavaScript values
\* A value of a request-body field: undefined (missing), a Number, or a
\* string held as its sequence of characters.
Undefined == [t |-> "undefined", n |-> NaN, s |-> <<>>]
JSNum(a) == [t |-> "number", n |-> a, s |-> <<>>]
JSStr(chars) == [t |-> "string", n |-> NaN, s |-> chars]

\* ToBoolean: undefined, 0, NaN and "" are falsy.
Truthy(x) ==
  CASE x.t = "undefined" -> FALSE
    [] x.t = "number" -> TruthyNum(x.n)
    [] OTHER -> Len(x.s) > 0

IsDigit(c) == c \in {"0", "1", "2", "3", "4", "5", "6", "7", "8", "9"}
DigitValue(c) ==
  CASE c = "0" -> 0 [] c = "1" -> 1 [] c = "2" -> 2 [] c = "3" -> 3
    [] c = "4" -> 4 [] c = "5" -> 5 [] c = "6" -> 6 [] c = "7" -> 7
    [] c = "8" -> 8 [] OTHER -> 9

RECURSIVE SkipWhiteSpace(_)
SkipWhiteSpace(s) ==
  IF Len(s) > 0 /\ Head(s) = " " THEN SkipWhiteSpace(Tail(s)) ELSE s

\* The value of the longest prefix of decimal digits of s, given that `seen`
\* digits worth `acc` came before; NaN when there is no digit at all.
RECURSIVE ParseDigits(_, _, _)
ParseDigits(s, acc, seen) ==
  IF Len(s) > 0 /\ IsDigit(Head(s))
  THEN ParseDigits(Tail(s), 10 * acc + DigitValue(Head(s)), TRUE)
  ELSE IF seen THEN Num(acc) ELSE NaN

\* parseInt(string) in radix 10 (the strings modelled hold no 0x prefix).
ParseIntString(s) ==
  LET t == SkipWhiteSpace(s)
      neg == Len(t) > 0 /\ Head(t) = "-"
      u == IF Len(t) > 0 /\ Head(t) \in {"-", "+"} THEN Tail(t) ELSE t
      r == ParseDigits(u, 0, FALSE)
  IN IF neg THEN Neg(r) ELSE r

\* parseInt(Number): the Number's decimal text truncated at the point.
ParseIntNumber(a) ==
  IF ~IsFin(a) THEN NaN
  ELSE IF a.v >= 0 THEN Num(a.v \div SCALE) ELSE Num(-((-a.v) \div SCALE))

parseInt(x) ==
  CASE x.t = "undefined" -> NaN
    [] x.t = "number" -> ParseIntNumber(x.n)
    [] OTHER -> ParseIntString(x.s)

\* Number.prototype.toFixed(2) followed by parseFloat.
ToFixed2(a) ==
  IF ~IsFin(a) THEN a
  ELSE Float(RoundDiv(RoundDiv(a.v * 100, SCALE) * SCALE, 100))

\* --------------------------------------------------------- getGrowthFactors
\* business_model as the handler reads it from the body: undefined, null, or
\* a string label.
NoModel == [t |-> "undefined", s |-> ""]
NullModel == [t |-> "null", s |-> ""]
Label(s) == [t |-> "string", s |-> s]

\* The property key factors[business_model] looks up.
PropertyKey(bm) ==
  CASE bm.t = "undefined" -> "undefined"
    [] bm.t = "null" -> "null"
    [] OTHER -> bm.s

\* The own properties of the `factors` object literal.
FactorKeys ==
  {"B2B Manufacturing", "Penjualan Langsung (B2C)", "Layanan Berlangganan",
   "Waralaba (Franchise)", "Produksi (B2B)"}

Pair(g, c) == [inherited |-> FALSE, monthlyGrowth |-> g, maxCapacity |-> c]

FactorTable(key) ==
  CASE key = "B2B Manufacturing" -> Pair(Dec(8, 100), Dec(12, 10))
    [] key = "Penjualan Langsung (B2C)" -> Pair(Dec(12, 100), Dec(15, 10))
    [] key = "Layanan Berlangganan" -> Pair(Dec(5, 100), Dec(11, 10))
    [] key = "Waralaba (Franchise)" -> Pair(Dec(6, 100), Dec(13, 10))
    [] OTHER -> Pair(Dec(7, 100), Dec(115, 100))

DefaultFactors == Pair(Dec(8, 100), Dec(12, 10))

\* The keys an object literal inherits from Object.prototype.  Each holds a
\* function (or, for __proto__, the prototype object): a truthy value that
\* has neither a monthlyGrowth nor a maxCapacity property.
ObjectPrototypeKeys ==
  {"constructor", "toString", "toLocaleString", "valueOf", "hasOwnProperty",
   "isPrototypeOf", "propertyIsEnumerable", "__proto__"}

\* What factors[key] evaluates to when key is inherited: reading
\* .monthlyGrowth or .maxCapacity of it gives undefined, NaN in arithmetic.
InheritedMember == [inherited |-> TRUE, monthlyGrowth |-> NaN, maxCapacity |-> NaN]

getGrowthFactors(business_model) ==
  LET key == PropertyKey(business_model)
  IN IF key \in FactorKeys THEN FactorTable(key)
     ELSE IF key \in ObjectPrototypeKeys THEN InheritedMember
     ELSE DefaultFactors

\* ----------------------------------------------------- getSeasonalMultiplier
SeasonalPattern(m) ==
  CASE m \in {1, 12} -> Dec(90, 100)
    [] m \in {2, 11} -> Dec(95, 100)
    [] m \in {3, 4, 10} -> Dec(100, 100)
    [] m \in {5, 9} -> Dec(105, 100)
    [] m \in {6, 8} -> Dec(110, 100)
    [] m = 7 -> Dec(115, 100)
    [] OTHER -> NaN

getSeasonalMultiplier(month) ==
  OrElse(SeasonalPattern(((month - 1) % 12) + 1), Num(1))


\* ------------------------------------------------ generateDynamicMonthlyData
\* Math.random() * 0.1 - 0.05 for a draw r of Math.random().
Variance(r) == Sub(Mul(r, Dec(1, 10)), Dec(5, 100))

\* currentRevenue before the loop.
InitialRevenue(expected_monthly_revenue) ==
  Mul(expected_monthly_revenue, Dec(6, 10))

\* currentRevenue after the growth step of `month`, r the draw of Math.random().
GrowRevenue(currentRevenue, month, growthFactors, expected_monthly_revenue, r) ==
  IF month > 1
  THEN LET growthRate == Mul(growthFactors.monthlyGrowth, Add(Num(1), Variance(r)))
       IN MathMin(Mul(currentRevenue, Add(Num(1), growthRate)),
                  Mul(expected_monthly_revenue, growthFactors.maxCapacity))
  ELSE currentRevenue

\* currentCost of a month, r the draw of Math.random().
CostOf(monthly_operating_cost, r) ==
  Mul(monthly_operating_cost, Add(Num(1), Variance(r)))

\* cumulativeProfit before rounding.
CumulativeProfit(monthlyData, profit, initial_investment) ==
  IF Len(monthlyData) > 0
  THEN Add(monthlyData[Len(monthlyData)].cumulativeProfit, profit)
  ELSE Sub(profit, initial_investment)

\* monthlyData[month - 2]?.revenue || adjustedRevenue
PreviousRevenue(monthlyData, month, adjustedRevenue) ==
  IF month - 2 >= 0 /\ month - 2 < Len(monthlyData)
  THEN OrElse(monthlyData[month - 1].revenue, adjustedRevenue)
  ELSE adjustedRevenue

RevenueGrowth(monthlyData, month, adjustedRevenue) ==
  LET prev == PreviousRevenue(monthlyData, month, adjustedRevenue)
  IN MathRound(Mul(Div(Sub(adjustedRevenue, prev), prev), Num(100)))

\* The object pushed for `month`.
DataPoint(monthlyData, month, adjustedRevenue, currentCost, fin) ==
  LET profit == Sub(adjustedRevenue, currentCost)
      cumulativeProfit == CumulativeProfit(monthlyData, profit, fin.initial_investment)
  IN [month |-> month,
      revenue |-> MathRound(adjustedRevenue),
      cost |-> MathRound(currentCost),
      profit |-> MathRound(profit),
      cumulativeProfit |-> MathRound(cumulativeProfit),
      revenueGrowth |-> RevenueGrowth(monthlyData, month, adjustedRevenue),
      capacityUtilization |->
        MathRound(Mul(Div(adjustedRevenue, fin.expected_monthly_revenue), Num(100)))]

\* Mutant of LoopContinues: month < timeframe.
LoopContinuesStrict(month, timeframe) == LT(Num(month), timeframe)

\* The loop condition month <= timeframe.
LoopContinues(month, timeframe) == LE(Num(month), timeframe)

\* ---------------------------------------------- calculateDynamicPaybackPeriod
RECURSIVE PaybackFrom(_, _)
PaybackFrom(monthlyData, i) ==
  IF i < Len(monthlyData)
  THEN IF GE(monthlyData[i + 1].cumulativeProfit, Num(0))
       THEN Div(Num(i + 1), Num(12))
       ELSE PaybackFrom(monthlyData, i + 1)
  ELSE Div(Num(Len(monthlyData)), Num(12))

\* Mutant of calculateDynamicPaybackPeriod: cumulativeProfit > 0 for >= 0.
RECURSIVE PaybackFromStrict(_, _)
PaybackFromStrict(monthlyData, i) ==
  IF i < Len(monthlyData)
  THEN IF LT(Num(0), monthlyData[i + 1].cumulativeProfit)
       THEN Div(Num(i + 1), Num(12))
       ELSE PaybackFromStrict(monthlyData, i + 1)
  ELSE Div(Num(Len(monthlyData)), Num(12))

calculateDynamicPaybackPeriodStrict(monthlyData) == PaybackFromStrict(monthlyData, 0)

calculateDynamicPaybackPeriod(monthlyData) == PaybackFrom(monthlyData, 0)

\* ------------------------------------------------------------- chart builders
\* Mutant of SampleRate: Math.floor for Math.ceil.
SampleRateFloor(length, targetPoints) ==
  IntOf(Div(Num(length), Num(targetPoints)))

\* Math.ceil(length / targetPoints)
SampleRate(length, targetPoints) ==
  IntOf(MathCeil(Div(Num(length), Num(targetPoints))))

\* index % sampleRate === 0 (index % 0 is NaN)
KeepIndex(index, sampleRate) == sampleRate # 0 /\ index % sampleRate = 0

\* data.filter((_, index) => index % sampleRate === 0), from index i on.
RECURSIVE FilterFrom(_, _, _)
FilterFrom(data, i, sampleRate) ==
  IF i >= Len(data) THEN <<>>
  ELSE (IF KeepIndex(i, sampleRate) THEN <<data[i + 1]>> ELSE <<>>)
       \o FilterFrom(data, i + 1, sampleRate)

Sample(data, targetPoints) ==
  FilterFrom(data, 0, SampleRate(Len(data), targetPoints))

generateRevenueCostChartData(monthlyData) ==
  LET sampledData == Sample(monthlyData, 24)
      n == Len(sampledData)
  IN [labels |-> [j \in 1..n |-> sampledData[j].month],
      Revenue |-> [j \in 1..n |-> sampledData[j].revenue],
      Cost |-> [j \in 1..n |-> sampledData[j].cost],
      Profit |-> [j \in 1..n |-> sampledData[j].profit]]

\* The roi of one month, before sampling and clamping.
RoiOf(item, initialInvestment) ==
  Mul(Div(Add(item.cumulativeProfit, initialInvestment), initialInvestment), Num(100))

\* Mutant of Clamp: the roi is not clamped.
ClampNone(roi, finalROI) == roi

\* One value of the "ROI Progress" dataset.
Clamp(roi, finalROI) == MathMin(roi, finalROI)

generateRoiGrowthChartData(monthlyData, finalROI, initialInvestment) ==
  LET roiData == [i \in 1..Len(monthlyData) |->
                    [month |-> monthlyData[i].month,
                     roi |-> RoiOf(monthlyData[i], initialInvestment)]]
      sampledROIData == Sample(roiData, 12)
      n == Len(sampledROIData)
  IN [labels |-> [j \in 1..n |-> sampledROIData[j].month],
      ROIProgress |-> [j \in 1..n |-> Clamp(sampledROIData[j].roi, finalROI)],
      TargetROI |-> [j \in 1..n |-> finalROI]]

\* --------------------------------------------------- generatePerformanceMetrics
ProfitMargin(net_profit, financialDetails) ==
  OrElse(Mul(Div(net_profit,
                 Mul(financialDetails.expected_monthly_revenue,
                     financialDetails.timeframe)),
             Num(100)),
         Num(0))

generatePerformanceMetrics(roiResult) ==
  LET financialDetails == roiResult.financialDetails
  IN [summary |-> [roi |-> roiResult.roi_percentage,
                   netProfit |-> roiResult.net_profit,
                   paybackPeriod |-> roiResult.payback_period_years,
                   totalMonths |-> financialDetails.timeframe],
      averages |-> [monthlyRevenue |-> financialDetails.expected_monthly_revenue,
                    monthlyCost |-> financialDetails.monthly_operating_cost,
                    monthlyProfit |-> Sub(financialDetails.expected_monthly_revenue,
                                          financialDetails.monthly_operating_cost)],
      efficiency |-> [profitMargin |-> ProfitMargin(roiResult.net_profit, financialDetails),
                      investmentEfficiency |->
                        Mul(Div(roiResult.net_profit, financialDetails.initial_investment),
                            Num(100))]]


\* ------------------------------------------------------------- calculateRoi
VARIABLES
  req,          \* req.body of the request being handled
  pc,           \* where the handler (or the helper under test) stands
  fin,          \* initInvest, monthlyRev, monthlyCost, timeFrame after parseInt
  gen,          \* locals of generateDynamicMonthlyData, with their values per month
  monthlyData,  \* the array generateDynamicMonthlyData builds and returns
  calc,         \* total_revenue .. payback_period_years
  db,           \* the prisma create calls made so far, in order
  res,          \* the response sent: status and chartData
  arg,          \* the argument of a helper called on its own
  out           \* the value that helper returned

vars == <<req, pc, fin, gen, monthlyData, calc, db, res, arg, out>>

\* Draws of Math.random(), a value of [0, 1): 1/2 gives the variance 0,
\* 0.94 gives +0.044.
RandomDraws == {Dec(1, 2), Dec(94, 100)}

FieldNames ==
  {"initial_investment", "expected_monthly_revenue", "monthly_operating_cost", "timeframe"}

\* Values a well-formed body holds in each field.
GoodValues(f) ==
  CASE f = "initial_investment" -> {JSNum(Num(1)), JSNum(Num(100))}
    [] f = "expected_monthly_revenue" -> {JSNum(Num(1)), JSNum(Num(20))}
    [] f = "monthly_operating_cost" -> {JSStr(<<"1">>)}
    [] OTHER -> {JSNum(Num(t)) : t \in 1..MaxTimeframe}

\* Values a malformed body holds in a field: missing, 0, "", "abc", 0.5.
BadValues ==
  {Undefined, JSNum(Num(0)), JSStr(<<>>), JSStr(<<"a", "b", "c">>), JSNum(Dec(1, 2))}

GoodDetails == {d \in [FieldNames -> UNION {GoodValues(f) : f \in FieldNames}] :
                  \A f \in FieldNames : d[f] \in GoodValues(f)}

\* A well-formed financial_details, or one with a single field malformed.
DetailsInputs ==
  GoodDetails \cup
  {[d EXCEPT ![f] = b] : d \in GoodDetails, f \in FieldNames, b \in BadValues}

\* business_strategy.business_model of the body (undefined when the body has
\* no business_strategy).
ModelInputs ==
  {NoModel, NullModel, Label("Franchise"), Label("toString")}
  \cup {Label(k) : k \in FactorKeys}

EquipmentInputs == {<<>>, <<1, 0>>}

NoDetails == [f \in FieldNames |-> Undefined]
NoFin == [initial_investment |-> NaN, expected_monthly_revenue |-> NaN,
          monthly_operating_cost |-> NaN, timeframe |-> NaN]
NoGen == [called |-> FALSE, month |-> 0, currentRevenue |-> NaN, currentCost |-> NaN,
          growthFactors |-> DefaultFactors, locals |-> <<>>]
NoCalc == [total_revenue |-> NaN, total_operating_cost |-> NaN, net_profit |-> NaN,
           roi_percentage |-> NaN, payback_period_years |-> NaN]
NoRes == [status |-> 0, chartData |-> <<>>]

Init ==
  /\ \E has \in BOOLEAN, d \in DetailsInputs, bm \in ModelInputs, e \in EquipmentInputs :
       req = [has_financial_details |-> has,
              financial_details |-> IF has THEN d ELSE NoDetails,
              has_business_strategy |-> bm # NoModel,
              business_model |-> bm,
              equipments |-> e]
  /\ pc = "start"
  /\ fin = NoFin
  /\ gen = NoGen
  /\ monthlyData = <<>>
  /\ calc = NoCalc
  /\ db = <<>>
  /\ res = NoRes
  /\ arg = <<>>
  /\ out = <<>>

\* The two validation gates of the handler: financial_details present, and
\* every required field truthy.
PassesValidation(body) ==
  /\ body.has_financial_details
  /\ \A f \in FieldNames : Truthy(body.financial_details[f])

\* Lines 32-62: a body that fails a gate is answered 400.
Reject ==
  /\ pc = "start"
  /\ ~PassesValidation(req)
  /\ res' = [status |-> 400, chartData |-> <<>>]
  /\ pc' = "done"
  /\ UNCHANGED <<req, fin, gen, monthlyData, calc, db, arg, out>>

\* Lines 64-77 and 220-225: parseInt of the four fields, then the call of
\* generateDynamicMonthlyData up to its loop.
Coerce ==
  /\ pc = "start"
  /\ PassesValidation(req)
  /\ LET d == req.financial_details
         f == [initial_investment |-> parseInt(d["initial_investment"]),
               expected_monthly_revenue |-> parseInt(d["expected_monthly_revenue"]),
               monthly_operating_cost |-> parseInt(d["monthly_operating_cost"]),
               timeframe |-> parseInt(d["timeframe"])]
     IN /\ fin' = f
        /\ gen' = [called |-> TRUE, month |-> 1,
                   currentRevenue |-> InitialRevenue(f.expected_monthly_revenue),
                   currentCost |-> f.monthly_operating_cost,
                   growthFactors |-> getGrowthFactors(req.business_model),
                   locals |-> <<>>]
  /\ pc' = "generate"
  /\ UNCHANGED <<req, monthlyData, calc, db, res, arg, out>>

\* Lines 227-268: one iteration of the loop.
Iterate ==
  /\ pc = "generate"
  /\ LoopContinues(gen.month, fin.timeframe)
  /\ \E r1 \in (IF gen.month > 1 THEN RandomDraws ELSE {Dec(1, 2)}), r2 \in RandomDraws :
       LET currentRevenue == GrowRevenue(gen.currentRevenue, gen.month, gen.growthFactors,
                                         fin.expected_monthly_revenue, r1)
           currentCost == CostOf(fin.monthly_operating_cost, r2)
           adjustedRevenue == Mul(currentRevenue, getSeasonalMultiplier(gen.month))
       IN /\ monthlyData' = Append(monthlyData,
               DataPoint(monthlyData, gen.month, adjustedRevenue, currentCost, fin))
          /\ gen' = [gen EXCEPT !.month = @ + 1,
                                !.currentRevenue = currentRevenue,
                                !.currentCost = currentCost,
                                !.locals = Append(@, [currentRevenue |-> currentRevenue,
                                                      adjustedRevenue |-> adjustedRevenue])]
  /\ UNCHANGED <<req, pc, fin, calc, db, res, arg, out>>

RECURSIVE SumField(_, _, _)
SumField(data, i, field) ==
  IF i > Len(data) THEN Num(0)
  ELSE LET rest == SumField(data, i + 1, field)
       IN IF field = "revenue" THEN Add(data[i].revenue, rest) ELSE Add(data[i].cost, rest)

\* Lines 80-95: the totals, the ROI and the payback period.
Totals(data, initInvest) ==
  LET total_revenue == SumField(data, 1, "revenue")
      total_operating_cost == SumField(data, 1, "cost")
      net_profit == Sub(total_revenue, total_operating_cost)
  IN [total_revenue |-> total_revenue,
      total_operating_cost |-> total_operating_cost,
      net_profit |-> net_profit,
      roi_percentage |-> Mul(Div(net_profit, initInvest), Num(100)),
      payback_period_years |-> calculateDynamicPaybackPeriod(data)]

\* The loop ends, the generator returns, and the handler runs on to its
\* first await.
Return ==
  /\ pc = "generate"
  /\ ~LoopContinues(gen.month, fin.timeframe)
  /\ calc' = Totals(monthlyData, fin.initial_investment)
  /\ pc' = "createFinancial"
  /\ UNCHANGED <<req, fin, gen, monthlyData, db, res, arg, out>>

\* equipments.filter((id) => Number.isInteger(id) && id > 0)
RECURSIVE ValidEquipmentIds(_)
ValidEquipmentIds(e) ==
  IF e = <<>> THEN <<>>
  ELSE (IF Head(e) > 0 THEN <<Head(e)>> ELSE <<>>) \o ValidEquipmentIds(Tail(e))

EquipmentCreated(log) ==
  Cardinality({i \in 1..Len(log) : log[i] = "businessStrategyEquipment"})

\* The numbers a prisma create is handed at each step.  The columns are
\* Int and Float: whether the client and the store take NaN or Infinity is
\* not decided by this program, so a create handed one may succeed or throw.
CreateData ==
  CASE pc = "createFinancial" ->
         {fin.initial_investment, fin.expected_monthly_revenue,
          fin.monthly_operating_cost, fin.timeframe}
    [] pc = "createEquipment" ->
         {ToFixed2(calc.roi_percentage), ParseIntNumber(calc.net_profit),
          ToFixed2(calc.payback_period_years), ParseIntNumber(calc.total_revenue),
          ParseIntNumber(calc.total_operating_cost)}
    [] OTHER -> {}

\* Line 203: a create that throws is answered 500.
PrismaThrows ==
  /\ \E a \in CreateData : ~IsFin(a)
  /\ pc = "createEquipment" =>
       EquipmentCreated(db) = Len(ValidEquipmentIds(req.equipments))
  /\ res' = [status |-> 500, chartData |-> <<>>]
  /\ pc' = "done"
  /\ UNCHANGED <<req, fin, gen, monthlyData, calc, db, arg, out>>

\* Lines 107-115
CreateFinancial ==
  /\ pc = "createFinancial"
  /\ db' = Append(db, "financialDetails")
  /\ pc' = "createStrategy"
  /\ UNCHANGED <<req, fin, gen, monthlyData, calc, res, arg, out>>

\* Lines 118-131: typeof null is "object", so a null business_model makes
\* business_strategy.business_model.label throw a TypeError.
StrategyThrows(body) ==
  body.has_business_strategy /\ body.business_model.t = "null"

\* Lines 118-139, and the catch of line 203 when reading the label throws.
CreateStrategy ==
  /\ pc = "createStrategy"
  /\ IF StrategyThrows(req)
     THEN /\ res' = [status |-> 500, chartData |-> <<>>]
          /\ pc' = "done"
          /\ UNCHANGED db
     ELSE /\ db' = Append(db, "businessStrategy")
          /\ pc' = "createEquipment"
          /\ UNCHANGED res
  /\ UNCHANGED <<req, fin, gen, monthlyData, calc, arg, out>>

\* Lines 142-155: one create per valid equipment id.
CreateEquipment ==
  /\ pc = "createEquipment"
  /\ EquipmentCreated(db) < Len(ValidEquipmentIds(req.equipments))
  /\ db' = Append(db, "businessStrategyEquipment")
  /\ UNCHANGED <<req, pc, fin, gen, monthlyData, calc, res, arg, out>>

\* Lines 158-168
CreateRoiResult ==
  /\ pc = "createEquipment"
  /\ EquipmentCreated(db) = Len(ValidEquipmentIds(req.equipments))
  /\ db' = Append(db, "roiResult")
  /\ pc' = "respond"
  /\ UNCHANGED <<req, fin, gen, monthlyData, calc, res, arg, out>>

\* The row findUnique returns: what roiResult.create stored, with its
\* financialDetails.
StoredResult(c, f) ==
  [roi_percentage |-> ToFixed2(c.roi_percentage),
   net_profit |-> ParseIntNumber(c.net_profit),
   payback_period_years |-> ToFixed2(c.payback_period_years),
   financialDetails |-> f]

\* Lines 171-202
Respond ==
  /\ pc = "respond"
  /\ res' = [status |-> 201,
             chartData |->
               [revenueCost |-> generateRevenueCostChartData(monthlyData),
                roiGrowth |-> generateRoiGrowthChartData(
                                monthlyData, calc.roi_percentage, fin.initial_investment),
                performanceMetrics |-> generatePerformanceMetrics(StoredResult(calc, fin))]]
  /\ pc' = "done"
  /\ UNCHANGED <<req, fin, gen, monthlyData, calc, db, arg, out>>

Next ==
  \/ Reject
  \/ Coerce
  \/ Iterate
  \/ Return
  \/ CreateFinancial
  \/ CreateStrategy
  \/ CreateEquipment
  \/ CreateRoiResult
  \/ Respond
  \/ PrismaThrows

Spec == Init /\ [][Next]_vars


\* ------------------------------ calculateDynamicPaybackPeriod called on its own
\* A data point with a given month and cumulativeProfit.
PointOf(month, cumulativeProfit) ==
  [month |-> month, revenue |-> Num(month), cost |-> Num(1),
   profit |-> Num(month - 1), cumulativeProfit |-> cumulativeProfit,
   revenueGrowth |-> Num(0), capacityUtilization |-> Num(0)]

\* cumulativeProfit values of the series: a loss, break-even, a gain, and the
\* NaN the generator stores when its arithmetic met a NaN.
CumulativeInputs == {Num(-1), Num(0), Num(5), NaN}

SeriesInputs ==
  UNION {{[i \in 1..n |-> PointOf(i, c[i])] : c \in [1..n -> CumulativeInputs]} :
           n \in 0..MaxSeriesLen}

Idle ==
  /\ req = [has_financial_details |-> FALSE, financial_details |-> NoDetails,
            has_business_strategy |-> FALSE, business_model |-> NoModel,
            equipments |-> <<>>]
  /\ fin = NoFin
  /\ gen = NoGen
  /\ monthlyData = <<>>
  /\ calc = NoCalc
  /\ db = <<>>
  /\ res = NoRes

InitPayback ==
  /\ Idle
  /\ pc = "call"
  /\ arg \in SeriesInputs
  /\ out = <<>>

CallPayback ==
  /\ pc = "call"
  /\ out' = calculateDynamicPaybackPeriod(arg)
  /\ pc' = "returned"
  /\ UNCHANGED <<req, fin, gen, monthlyData, calc, db, res, arg>>

NextPayback == CallPayback

SpecPayback == InitPayback /\ [][NextPayback]_vars

\* ------------------------------------------- the chart builders called on their own
\* Series whose cumulativeProfit starts at `start` and moves by `step` a month.
LinearSeries(n, start, step) ==
  [i \in 1..n |-> PointOf(i, Num(start + step * i))]

TrendInputs == {<<-10, 1>>, <<0, 0>>, <<5, -1>>, <<-3, 2>>}
FinalRoiInputs == {Num(-50), Num(0), Dec(995, 10), Num(120)}
InvestmentInputs == {Num(1), Num(100)}

InitChart ==
  /\ Idle
  /\ pc = "call"
  /\ \E n \in 0..MaxChartLen, t \in TrendInputs, f \in FinalRoiInputs,
        v \in InvestmentInputs :
       arg = [monthlyData |-> LinearSeries(n, t[1], t[2]),
              finalROI |-> f, initialInvestment |-> v]
  /\ out = [revenueCost |-> <<>>, roiGrowth |-> <<>>]

CallRevenueCost ==
  /\ pc = "call"
  /\ out' = [out EXCEPT !.revenueCost = generateRevenueCostChartData(arg.monthlyData)]
  /\ pc' = "call2"
  /\ UNCHANGED <<req, fin, gen, monthlyData, calc, db, res, arg>>

CallRoiGrowth ==
  /\ pc = "call2"
  /\ out' = [out EXCEPT !.roiGrowth =
               generateRoiGrowthChartData(arg.monthlyData, arg.finalROI,
                                          arg.initialInvestment)]
  /\ pc' = "returned"
  /\ UNCHANGED <<req, fin, gen, monthlyData, calc, db, res, arg>>

NextChart == CallRevenueCost \/ CallRoiGrowth

SpecChart == InitChart /\ [][NextChart]_vars


\* ------------------------------------ generatePerformanceMetrics called on its own
\* Rows findUnique can return: expected_monthly_revenue and timeframe are the
\* integers parseInt made of truthy values, so either can be 0 (parseInt(0.5)).
MetricsInputs ==
  {[roi_percentage |-> Mul(Div(Num(n), Num(v)), Num(100)),
    net_profit |-> Num(n),
    payback_period_years |-> Dec(t, 12),
    financialDetails |-> [initial_investment |-> Num(v),
                          expected_monthly_revenue |-> Num(r),
                          monthly_operating_cost |-> Num(1),
                          timeframe |-> Num(t)]] :
     n \in -MaxNet..MaxNet, v \in {1, 100}, r \in {0, 1, 20}, t \in {0, 1, 12}}

InitMetrics ==
  /\ Idle
  /\ pc = "call"
  /\ arg \in MetricsInputs
  /\ out = <<>>

CallMetrics ==
  /\ pc = "call"
  /\ out' = generatePerformanceMetrics(arg)
  /\ pc' = "returned"
  /\ UNCHANGED <<req, fin, gen, monthlyData, calc, db, res, arg>>

NextMetrics == CallMetrics

SpecMetrics == InitMetrics /\ [][NextMetrics]_vars

\* ===================================================================== claims
\* The four fields the generator was called with are integers > 0.
ValidInputs ==
  \A a \in {fin.initial_investment, fin.expected_monthly_revenue,
            fin.monthly_operating_cost, fin.timeframe} :
    IsFin(a) /\ a.v > 0 /\ a.v % SCALE = 0

\* C1: for valid inputs, any business model label and any variance draws,
\* generateDynamicMonthlyData returns exactly `timeframe` points whose month
\* fields are 1, 2, ..., timeframe in order (while the loop runs, the points
\* pushed so far are months 1..k with k <= timeframe).
C1_ExactlyTimeframePoints ==
  (gen.called /\ ValidInputs) =>
    /\ \A i \in 1..Len(monthlyData) : monthlyData[i].month = i
    /\ Len(monthlyData) <= IntOf(fin.timeframe)
    /\ (pc # "generate") => Len(monthlyData) = IntOf(fin.timeframe)

C1_Witness ==
  /\ pc = "createFinancial"
  /\ ValidInputs
  /\ Len(monthlyData) >= 2
  /\ Len(monthlyData) = IntOf(fin.timeframe)
  /\ monthlyData[Len(monthlyData)].month = Len(monthlyData)

\* C2: the stored (rounded) fields satisfy the recurrence exactly:
\* cumulativeProfit[1] = profit[1] - initial_investment and, for k > 1,
\* cumulativeProfit[k] = cumulativeProfit[k-1] + profit[k], for every valid
\* input and every sequence of draws.  (Equality of values: a NaN field
\* equals a NaN sum.)
C2_RecurrenceOnStoredFields ==
  (gen.called /\ ValidInputs) =>
    \A k \in 1..Len(monthlyData) :
      IF k = 1
      THEN monthlyData[1].cumulativeProfit
             = Sub(monthlyData[1].profit, fin.initial_investment)
      ELSE monthlyData[k].cumulativeProfit
             = Add(monthlyData[k - 1].cumulativeProfit, monthlyData[k].profit)

\* C3: calculateDynamicPaybackPeriod returns m/12 for the smallest 1-based
\* month m whose cumulativeProfit is >= 0, and (series length)/12 when there
\* is no such month; the result is always a finite number.
C3_PaybackIsFirstBreakEven ==
  (pc = "returned") =>
    LET breakEven == {i \in 1..Len(arg) : GE(arg[i].cumulativeProfit, Num(0))}
    IN /\ IsFin(out)
       /\ breakEven = {} => out = Dec(Len(arg), 12)
       /\ \A m \in breakEven :
            (\A j \in breakEven : m <= j) => out = Dec(m, 12)

\* Negative for months 1..4, non-negative from month 5 on: 5/12.
C3_Witness ==
  /\ pc = "returned"
  /\ Len(arg) > 3
  /\ \A i \in 1..2 : LT(arg[i].cumulativeProfit, Num(0))
  /\ \A i \in 3..Len(arg) : GE(arg[i].cumulativeProfit, Num(0))
  /\ out = Dec(3, 12)

\* ceil(n / t) on integers.
CeilDiv(n, t) == (n + t - 1) \div t

\* The months at the 0-based indices that are multiples of ceil(n / t), of a
\* series whose months are 1..n.
KeptMonths(n, t) ==
  LET rate == CeilDiv(n, t)
  IN [j \in 1..CeilDiv(n, rate) |-> (j - 1) * rate + 1]

\* C4: both chart builders keep exactly the points at the 0-based indices
\* that are multiples of ceil(length / targetPoints); for every length >= 1
\* there are at most targetPoints of them (24 and 12) and month 1 is kept;
\* length 36 gives the 18 revenue/cost points of months 1, 3, ..., 35.
C4_DownSampling ==
  (pc = "returned" /\ Len(arg.monthlyData) >= 1) =>
    LET n == Len(arg.monthlyData)
        rc == out.revenueCost
        rg == out.roiGrowth
    IN /\ rc.labels = KeptMonths(n, 24)
       /\ rg.labels = KeptMonths(n, 12)
       /\ Len(rc.labels) <= 24 /\ Len(rg.labels) <= 12
       /\ rc.labels[1] = 1 /\ rg.labels[1] = 1
       /\ \A j \in 1..Len(rc.labels) :
            /\ rc.Revenue[j] = arg.monthlyData[rc.labels[j]].revenue
            /\ rc.Cost[j] = arg.monthlyData[rc.labels[j]].cost
            /\ rc.Profit[j] = arg.monthlyData[rc.labels[j]].profit
       /\ (n = 36) => rc.labels = [j \in 1..18 |-> 2 * j - 1]

C4_Witness ==
  /\ pc = "returned"
  /\ Len(arg.monthlyData) = 36
  /\ Len(out.revenueCost.labels) = 18
  /\ out.revenueCost.labels[18] = 35
  /\ Len(out.roiGrowth.labels) = 12

\* C5: every "ROI Progress" value is at most finalROI, also for a negative
\* finalROI, and is min(((cumulativeProfit + initialInvestment) /
\* initialInvestment) * 100, finalROI) of its sampled month.
C5_RoiProgressClamped ==
  (pc = "returned") =>
    \A j \in 1..Len(out.roiGrowth.ROIProgress) :
      LET item == arg.monthlyData[out.roiGrowth.labels[j]]
          roi == Mul(Div(Add(item.cumulativeProfit, arg.initialInvestment),
                         arg.initialInvestment), Num(100))
          value == out.roiGrowth.ROIProgress[j]
      IN /\ LE(value, arg.finalROI)
         /\ value = (IF LE(roi, arg.finalROI) THEN roi ELSE arg.finalROI)
         /\ out.roiGrowth.TargetROI[j] = arg.finalROI

\* A negative finalROI that clamps one sampled month and leaves another.
C5_Witness ==
  /\ pc = "returned"
  /\ LT(arg.finalROI, Num(0))
  /\ \E j, k \in 1..Len(out.roiGrowth.ROIProgress) :
       /\ out.roiGrowth.ROIProgress[j] = arg.finalROI
       /\ LT(arg.finalROI,
             RoiOf(arg.monthlyData[out.roiGrowth.labels[j]], arg.initialInvestment))
       /\ LT(out.roiGrowth.ROIProgress[k], arg.finalROI)


\* The row the claim C6 names for a business_model: its five labels, and
\* the default row for null and any other string.
ClaimedFactors(bm) ==
  CASE bm = Label("B2B Manufacturing") -> Pair(Dec(8, 100), Dec(120, 100))
    [] bm = Label("Direct-to-consumer sales") -> Pair(Dec(12, 100), Dec(150, 100))
    [] bm = Label("Subscription service") -> Pair(Dec(5, 100), Dec(110, 100))
    [] bm = Label("Franchise") -> Pair(Dec(6, 100), Dec(130, 100))
    [] bm = Label("Production (B2B)") -> Pair(Dec(7, 100), Dec(115, 100))
    [] OTHER -> Pair(Dec(8, 100), Dec(120, 100))

\* C6: getGrowthFactors returns the table row of each of the five named
\* labels and the default row {0.08, 1.20} for null and for any unrecognized
\* string; it never returns anything but a {monthlyGrowth, maxCapacity} pair.
C6_GrowthFactorsTable ==
  gen.called =>
    /\ ~gen.growthFactors.inherited
    /\ gen.growthFactors = ClaimedFactors(req.business_model)

\* C7: profitMargin is 0 whenever expected_monthly_revenue * timeframe is
\* falsy, for every net_profit, and net_profit / (expected_monthly_revenue *
\* timeframe) * 100 otherwise.
C7_ProfitMarginGuard ==
  (pc = "returned") =>
    LET f == arg.financialDetails
        denominator == Mul(f.expected_monthly_revenue, f.timeframe)
        profitMargin == out.efficiency.profitMargin
    IN IF ~TruthyNum(denominator)
       THEN profitMargin = Num(0)
       ELSE profitMargin = Mul(Div(arg.net_profit, denominator), Num(100))

\* financial_details is absent, or one of the four fields is missing or is
\* not a number after parseInt.
Malformed(body) ==
  \/ ~body.has_financial_details
  \/ \E f \in FieldNames :
       \/ body.financial_details[f].t = "undefined"
       \/ ~IsFin(parseInt(body.financial_details[f]))

\* C8: a malformed body is answered 400 before generateDynamicMonthlyData is
\* invoked and before any create; the generator only ever sees four numbers.
C8_RejectedBeforeCore ==
  /\ Malformed(req) =>
       /\ ~gen.called
       /\ db = <<>>
       /\ pc \in {"start", "done"}
       /\ (pc = "done") => res.status = 400
  /\ gen.called =>
       \A a \in {fin.initial_investment, fin.expected_monthly_revenue,
                 fin.monthly_operating_cost, fin.timeframe} : IsFin(a)

\* C9: currentRevenue starts at 0.6 * expected_monthly_revenue, never
\* decreases from one month to the next and never exceeds
\* expected_monthly_revenue * maxCapacity, for every business model and every
\* draw; each stored revenue is at most
\* round(expected_monthly_revenue * maxCapacity * seasonalMultiplier(month)).
C9_RevenueCapped ==
  (gen.called /\ ValidInputs) =>
    LET cap == Mul(fin.expected_monthly_revenue, gen.growthFactors.maxCapacity)
    IN \A k \in 1..Len(gen.locals) :
         /\ (k = 1) => gen.locals[1].currentRevenue
                         = Mul(fin.expected_monthly_revenue, Dec(6, 10))
         /\ (k > 1) => ~LT(gen.locals[k].currentRevenue, gen.locals[k - 1].currentRevenue)
         /\ ~LT(cap, gen.locals[k].currentRevenue)
         /\ LE(monthlyData[k].revenue, MathRound(Mul(cap, getSeasonalMultiplier(k))))

\* C10: revenueGrowth of every point is round(((adjustedRevenue -
\* prevAdjustedRevenue) / prevAdjustedRevenue) * 100), prevAdjustedRevenue
\* being the previous month's unrounded adjustedRevenue, or adjustedRevenue
\* itself in month 1, so that the first revenueGrowth is 0.
C10_RevenueGrowthFromUnrounded ==
  (gen.called /\ ValidInputs) =>
    \A k \in 1..Len(monthlyData) :
      LET adjustedRevenue == gen.locals[k].adjustedRevenue
          prev == IF k = 1 THEN adjustedRevenue ELSE gen.locals[k - 1].adjustedRevenue
      IN /\ monthlyData[k].revenueGrowth
              = MathRound(Mul(Div(Sub(adjustedRevenue, prev), prev), Num(100)))
         /\ (k = 1) => monthlyData[1].revenueGrowth = Num(0)


====
